---- MODULE Spec2Model ----
(***************************************************************************)
(* Model of src/main.rs: a batch SOL transfer tool.  main loads            *)
(* config.yaml, runs one send_sol future per wallet entry under join_all,  *)
(* collects the signatures of the successful ones, runs one                *)
(* check_tx_status future per signature under join_all and prints a        *)
(* summary.  Futures are lazy and advance one await point at a time, in    *)
(* any interleaving; RPC responses are chosen nondeterministically.        *)
(***************************************************************************)
EXTENDS Integers, Sequences, FiniteSets, TLC

\* ---- bounds of the model ------------------------------------------------
MaxN == 2
MaxNano == 150

\* ---- program constants --------------------------------------------------
MaxAttempts == 10
Interval == 2

\* ---- inputs -------------------------------------------------------------
KeypairPaths == {"id.json", "missing.json"}
Addresses == {"ValidBase58Pubkey", "not-a-pubkey"}

\* read_keypair_file succeeds only on a readable keypair file
ReadKeypairOk(path) == path = "id.json"

\* <Pubkey as FromStr>::parse succeeds only on a base58 32-byte key
ParsePubkeyOk(addr) == addr = "ValidBase58Pubkey"

\* amount_sol is written in config.yaml as a decimal with 9 decimals; it is
\* kept here as that text's count of 0.000000001 SOL
BatchAmounts == {1}

TransferEntry ==
    [from_keypair : KeypairPaths, to_address : Addresses,
     amount_sol : BatchAmounts]

WalletLists == UNION {[1..n -> TransferEntry] : n \in 0..MaxN}

\* config.yaml on disk: absent, present but not a valid Config, or a Config
ConfigFiles ==
    {[exists |-> FALSE, wellFormed |-> FALSE, wallets |-> <<>>],
     [exists |-> TRUE, wellFormed |-> FALSE, wallets |-> <<>>]}
    \cup {[exists |-> TRUE, wellFormed |-> TRUE, wallets |-> w] : w \in WalletLists}

\* single valid transfers of every amount from 0 to MaxNano nano-SOL
AmountConfigFiles ==
    {[exists |-> TRUE, wellFormed |-> TRUE,
      wallets |-> <<[from_keypair |-> "id.json",
                     to_address |-> "ValidBase58Pubkey",
                     amount_sol |-> k]>>] : k \in 0..MaxNano}

VARIABLES configFile, pc, mainResult, wallets, snd, results, signatures,
          chk, statuses, success_count, fail_count, output

vars == <<configFile, pc, mainResult, wallets, snd, results, signatures,
          chk, statuses, success_count, fail_count, output>>

\* ---- values -------------------------------------------------------------
Pending == [tag |-> "Pending", sig |-> 0, err |-> "none"]
OkR(s) == [tag |-> "Ok", sig |-> s, err |-> "none"]
ErrR(e) == [tag |-> "Err", sig |-> 0, err |-> e]

\* the signature string of the transaction built for entry i
SignatureOf(i) == i

Line(k, s, e, n) == [kind |-> k, sig |-> s, err |-> e, n |-> n]

\* a send_sol future that has not been polled yet
NewSendFuture ==
    [pc |-> "init", result |-> Pending, lamports |-> 0, bhCalls |-> 0,
     sendCalls |-> 0, bhResp |-> "none", sendResp |-> "none"]

\* a check_tx_status future that has not been polled yet
NewCheckFuture(sig) ==
    [sig |-> sig, pc |-> "loop", attempt |-> 0, result |-> FALSE,
     queries |-> 0, waited |-> 0, sinceQuery |-> 0, lastGap |-> 0,
     firstPresent |-> "none", lastResp |-> "cleared"]

Init ==
    /\ configFile \in ConfigFiles
    /\ pc = "read"
    /\ mainResult = "running"
    /\ wallets = <<>>
    /\ snd = <<>>
    /\ results = <<>>
    /\ signatures = <<>>
    /\ chk = <<>>
    /\ statuses = <<>>
    /\ success_count = 0
    /\ fail_count = 0
    /\ output = <<>>

\* the same program started on the config files of AmountConfigFiles
AmountInit ==
    /\ configFile \in AmountConfigFiles
    /\ pc = "read"
    /\ mainResult = "running"
    /\ wallets = <<>>
    /\ snd = <<>>
    /\ results = <<>>
    /\ signatures = <<>>
    /\ chk = <<>>
    /\ statuses = <<>>
    /\ success_count = 0
    /\ fail_count = 0
    /\ output = <<>>

\* ---- main: load config --------------------------------------------------
\* fs::read_to_string("config.yaml")?
ReadConfig ==
    /\ pc = "read"
    /\ IF configFile.exists
          THEN pc' = "parse" /\ mainResult' = mainResult
          ELSE pc' = "failed" /\ mainResult' = "Err"
    /\ UNCHANGED <<configFile, wallets, snd, results, signatures, chk,
                   statuses, success_count, fail_count, output>>

\* a parse failure replaced by the default Config (unwrap_or_default)
ParseConfigDefault ==
    /\ pc = "parse"
    /\ pc' = "phase1"
    /\ wallets' = configFile.wallets
    /\ snd' = [i \in 1..Len(configFile.wallets) |-> NewSendFuture]
    /\ output' = Append(output, Line("sending", 0, "none", 0))
    /\ UNCHANGED <<configFile, mainResult, results, signatures, chk, statuses,
                   success_count, fail_count>>

\* serde_yaml::from_str(&config_str)?; RpcClient::new; println!; the lazy
\* send_sol futures are created and handed to join_all
ParseConfig ==
    /\ pc = "parse"
    /\ IF configFile.wellFormed
          THEN /\ pc' = "phase1"
               /\ wallets' = configFile.wallets
               /\ snd' = [i \in 1..Len(configFile.wallets) |-> NewSendFuture]
               /\ output' = Append(output, Line("sending", 0, "none", 0))
               /\ mainResult' = mainResult
          ELSE /\ pc' = "failed"
               /\ mainResult' = "Err"
               /\ UNCHANGED <<wallets, snd, output>>
    /\ UNCHANGED <<configFile, results, signatures, chk, statuses,
                   success_count, fail_count>>

\* ---- f64 arithmetic of the amount conversion ----------------------------
\* Naturals wider than the checker's integers are little-endian sequences
\* of limbs in base LimbBase, without leading zero limbs.
LimbBase == 32768
MantissaBits == 53
\* 1_000_000_000 = ScaleChunk^3, applied in three steps that fit a limb
ScaleChunk == 1000

RECURSIVE BigNorm(_)
BigNorm(x) ==
    IF Len(x) = 0 THEN <<>>
    ELSE IF x[Len(x)] = 0 THEN BigNorm(SubSeq(x, 1, Len(x) - 1))
    ELSE x

RECURSIVE BigOfInt(_)
BigOfInt(n) ==
    IF n = 0 THEN <<>> ELSE <<n % LimbBase>> \o BigOfInt(n \div LimbBase)

RECURSIVE IntOfBig(_)
IntOfBig(x) ==
    IF Len(x) = 0 THEN 0 ELSE Head(x) + LimbBase * IntOfBig(Tail(x))

\* x * m + carry for a small m
RECURSIVE BigMulSmall(_, _, _)
BigMulSmall(x, m, carry) ==
    IF Len(x) = 0 THEN BigOfInt(carry)
    ELSE LET v == Head(x) * m + carry
         IN <<v % LimbBase>> \o BigMulSmall(Tail(x), m, v \div LimbBase)

\* quotient and remainder of x by a small d
RECURSIVE BigDivRec(_, _)
BigDivRec(x, d) ==
    IF Len(x) = 0 THEN [q |-> <<>>, r |-> 0]
    ELSE LET hi == BigDivRec(Tail(x), d)
             v == hi.r * LimbBase + Head(x)
         IN [q |-> <<v \div d>> \o hi.q, r |-> v % d]

BigDivSmall(x, d) ==
    LET qr == BigDivRec(x, d) IN [q |-> BigNorm(qr.q), r |-> qr.r]

BigAddOne(x) == BigMulSmall(x, 1, 1)

BigIsOdd(x) == Len(x) > 0 /\ Head(x) % 2 = 1

RECURSIVE IntBitLen(_)
IntBitLen(n) == IF n = 0 THEN 0 ELSE 1 + IntBitLen(n \div 2)

BigBitLen(x) ==
    IF Len(x) = 0 THEN 0 ELSE 15 * (Len(x) - 1) + IntBitLen(x[Len(x)])

RECURSIVE Pow2(_)
Pow2(n) == IF n = 0 THEN 1 ELSE 2 * Pow2(n - 1)

\* x * 2^s
RECURSIVE BigShiftLeft(_, _)
BigShiftLeft(x, s) ==
    IF s = 0 THEN x
    ELSE IF s >= 10 THEN BigShiftLeft(BigMulSmall(x, 1024, 0), s - 10)
    ELSE BigShiftLeft(BigMulSmall(x, 2, 0), s - 1)

\* floor(x / 2^s) and what is dropped, as [q, half, sticky]: half is the
\* highest dropped bit, sticky tells whether any lower dropped bit is set
RECURSIVE BigShiftRight(_, _, _, _)
BigShiftRight(x, s, half, sticky) ==
    IF s = 0 THEN [q |-> x, half |-> half, sticky |-> sticky]
    ELSE LET c == IF s >= 10 THEN 10 ELSE s
             qr == BigDivSmall(x, Pow2(c))
         IN BigShiftRight(qr.q, s - c, qr.r \div Pow2(c - 1),
                          sticky \/ half = 1 \/ qr.r % Pow2(c - 1) # 0)

\* IEEE 754 round to nearest, ties to even, of a shifted-out value
RoundNearestEven(sh) ==
    IF sh.half = 1 /\ (sh.sticky \/ BigIsOdd(sh.q)) THEN BigAddOne(sh.q) ELSE sh.q

\* a finite positive f64 is [m, e] with value m * 2^(-e), m of at most
\* MantissaBits bits; zero is [<<>>, 0]
F64Zero == [m |-> <<>>, e |-> 0]

\* the f64 nearest to num * 2^(-e) for a natural num of any width
F64Round(num, e) ==
    IF Len(num) = 0 THEN F64Zero
    ELSE LET t == BigBitLen(num) - MantissaBits
         IN IF t <= 0 THEN [m |-> num, e |-> e]
            ELSE [m |-> RoundNearestEven(BigShiftRight(num, t, 0, FALSE)),
                  e |-> e - t]

\* the f64 nearest to num / 10^9 for a natural num:
\* the quotient is taken with enough extra bits, the remainder is sticky
F64OfRatio(num) ==
    IF num = 0 THEN F64Zero
    ELSE LET e == MantissaBits + 32 - IntBitLen(num)
             x == BigShiftLeft(BigOfInt(num), e)
             d1 == BigDivSmall(x, ScaleChunk)
             d2 == BigDivSmall(d1.q, ScaleChunk)
             d3 == BigDivSmall(d2.q, ScaleChunk)
             inexact == d1.r # 0 \/ d2.r # 0 \/ d3.r # 0
             t == BigBitLen(d3.q) - MantissaBits
             sh == BigShiftRight(d3.q, t, 0, inexact)
         IN [m |-> RoundNearestEven(sh), e |-> e - t]

\* serde's parse of the decimal text of amount_sol: the text is nano units
\* of SOL written with 9 decimals, the value is the nearest f64
ParseAmount(nano) == F64OfRatio(nano)

\* a * 1_000_000_000.0 in f64: the exact product, rounded once
F64MulScale(a) ==
    F64Round(BigMulSmall(BigMulSmall(BigMulSmall(a.m, ScaleChunk, 0),
                                     ScaleChunk, 0),
                         ScaleChunk, 0),
             a.e)

\* `as u64` of a non-negative f64 below 2^31: truncation toward zero
F64AsU64(a) ==
    IF a.e <= 0 THEN IntOfBig(BigShiftLeft(a.m, 0 - a.e))
    ELSE IntOfBig(BigShiftRight(a.m, a.e, 0, FALSE).q)

\* (entry.amount_sol * 1_000_000_000.0) as u64
Lamports(nano) == F64AsU64(F64MulScale(ParseAmount(nano)))

\* the conversion of every amount of the model, computed once
LamportsTable == {<<k, Lamports(k)>> : k \in (0..MaxNano) \cup BatchAmounts}

LamportsOf(nano) == (CHOOSE p \in LamportsTable : p[1] = nano)[2]

\* ---- send_sol -----------------------------------------------------------
\* send_sol without the `?` on the address parse
SendSolStartNoParse(entry, f) ==
    IF ~ReadKeypairOk(entry.from_keypair)
       THEN [f EXCEPT !.pc = "done", !.result = ErrR("keypair")]
       ELSE [f EXCEPT !.pc = "blockhash", !.bhCalls = @ + 1,
                      !.lamports = LamportsOf(entry.amount_sol)]

\* first poll: read_keypair_file(..)?, parse()?, lamports, and the call of
\* get_latest_blockhash, up to its await
SendSolStart(entry, f) ==
    IF ~ReadKeypairOk(entry.from_keypair)
       THEN [f EXCEPT !.pc = "done", !.result = ErrR("keypair")]
    ELSE IF ~ParsePubkeyOk(entry.to_address)
       THEN [f EXCEPT !.pc = "done", !.result = ErrR("address")]
    ELSE [f EXCEPT !.pc = "blockhash", !.bhCalls = @ + 1,
                   !.lamports = LamportsOf(entry.amount_sol)]

\* a blockhash error that is ignored (unwrap_or_default)
BlockhashReturnedIgnoreErr(f, resp) ==
    [f EXCEPT !.pc = "sending", !.sendCalls = @ + 1, !.bhResp = resp]

\* get_latest_blockhash().await? returned; on Ok the transaction is built,
\* signed and handed to send_and_confirm_transaction, up to its await
BlockhashReturned(f, resp) ==
    IF resp = "err"
       THEN [f EXCEPT !.pc = "done", !.result = ErrR("blockhash"), !.bhResp = resp]
       ELSE [f EXCEPT !.pc = "sending", !.sendCalls = @ + 1, !.bhResp = resp]

\* a rejected submission that is sent once more
SendReturnedRetry(f, i, resp) ==
    IF resp = "err" /\ f.sendCalls < 2
       THEN [f EXCEPT !.pc = "sending", !.sendCalls = @ + 1, !.sendResp = resp]
    ELSE IF resp = "err"
       THEN [f EXCEPT !.pc = "done", !.result = ErrR("rejected"), !.sendResp = resp]
    ELSE [f EXCEPT !.pc = "done", !.result = OkR(SignatureOf(i)), !.sendResp = resp]

\* send_and_confirm_transaction(&tx).await? returned
SendReturned(f, i, resp) ==
    IF resp = "err"
       THEN [f EXCEPT !.pc = "done", !.result = ErrR("rejected"), !.sendResp = resp]
       ELSE [f EXCEPT !.pc = "done", !.result = OkR(SignatureOf(i)), !.sendResp = resp]

\* entries sent one after the other: an entry starts only when every
\* earlier one has finished
SendPollFirstInOrder(i) ==
    /\ pc = "phase1"
    /\ snd[i].pc = "init"
    /\ \A k \in DOMAIN snd : k < i => snd[k].pc = "done"
    /\ snd' = [snd EXCEPT ![i] = SendSolStart(wallets[i], snd[i])]
    /\ UNCHANGED <<configFile, pc, mainResult, wallets, results, signatures,
                   chk, statuses, success_count, fail_count, output>>

SendPollFirst(i) ==
    /\ pc = "phase1"
    /\ snd[i].pc = "init"
    /\ snd' = [snd EXCEPT ![i] = SendSolStart(wallets[i], snd[i])]
    /\ UNCHANGED <<configFile, pc, mainResult, wallets, results, signatures,
                   chk, statuses, success_count, fail_count, output>>

SendBlockhash(i) ==
    /\ pc = "phase1"
    /\ snd[i].pc = "blockhash"
    /\ \E resp \in {"ok", "err"} :
          snd' = [snd EXCEPT ![i] = BlockhashReturned(snd[i], resp)]
    /\ UNCHANGED <<configFile, pc, mainResult, wallets, results, signatures,
                   chk, statuses, success_count, fail_count, output>>

SendConfirm(i) ==
    /\ pc = "phase1"
    /\ snd[i].pc = "sending"
    /\ \E resp \in {"ok", "err"} :
          snd' = [snd EXCEPT ![i] = SendReturned(snd[i], i, resp)]
    /\ UNCHANGED <<configFile, pc, mainResult, wallets, results, signatures,
                   chk, statuses, success_count, fail_count, output>>

\* ---- main: join of phase 1, collection of the signatures ----------------
\* a join that is ready as soon as one future is (select_all)
AnySendJoined(fs) == fs = <<>> \/ \E i \in DOMAIN fs : fs[i].pc = "done"

\* a join that is ready at the first Err (try_join_all)
SendsJoinedOrErr(fs) ==
    \/ \A i \in DOMAIN fs : fs[i].pc = "done"
    \/ \E i \in DOMAIN fs : fs[i].result.tag = "Err"

\* join_all(futures).await is ready when every send_sol future is
AllSendsJoined(fs) == \A i \in DOMAIN fs : fs[i].pc = "done"

\* results handed back last future first
JoinAllReversed(fs) == [i \in DOMAIN fs |-> fs[Len(fs) + 1 - i].result]

\* the Vec join_all returns: one result per future, in input order
JoinAll(fs) == [i \in DOMAIN fs |-> fs[i].result]

\* a loop that pushes an identifier for every result
RECURSIVE CollectSignaturesAll(_)
CollectSignaturesAll(rs) ==
    IF Len(rs) = 0 THEN <<>>
    ELSE <<Head(rs).sig>> \o CollectSignaturesAll(Tail(rs))

\* for result in results { match result { Ok(sig) => signatures.push(sig) .. } }
RECURSIVE CollectSignatures(_)
CollectSignatures(rs) ==
    IF Len(rs) = 0 THEN <<>>
    ELSE IF Head(rs).tag = "Ok"
         THEN <<Head(rs).sig>> \o CollectSignatures(Tail(rs))
         ELSE CollectSignatures(Tail(rs))

\* a loop whose Err arm prints nothing
RECURSIVE CollectOutputOkOnly(_)
CollectOutputOkOnly(rs) ==
    IF Len(rs) = 0 THEN <<>>
    ELSE IF Head(rs).tag = "Ok"
         THEN <<Line("sent", Head(rs).sig, "none", 0)>> \o CollectOutputOkOnly(Tail(rs))
         ELSE CollectOutputOkOnly(Tail(rs))

\* the line printed for each result by the same loop
RECURSIVE CollectOutput(_)
CollectOutput(rs) ==
    IF Len(rs) = 0 THEN <<>>
    ELSE IF Head(rs).tag = "Ok"
         THEN <<Line("sent", Head(rs).sig, "none", 0)>> \o CollectOutput(Tail(rs))
         ELSE <<Line("failed", 0, Head(rs).err, 0)>> \o CollectOutput(Tail(rs))

\* a loop that propagates the first Err with `?`
CollectResultsTry ==
    /\ pc = "phase1"
    /\ AllSendsJoined(snd)
    /\ results' = JoinAll(snd)
    /\ IF \E i \in DOMAIN results' : results'[i].tag = "Err"
          THEN /\ pc' = "failed"
               /\ mainResult' = "Err"
               /\ UNCHANGED <<signatures, output, chk>>
          ELSE /\ signatures' = CollectSignatures(results')
               /\ output' = output \o CollectOutput(results')
                                   \o <<Line("checking", 0, "none", 0)>>
               /\ chk' = [j \in 1..Len(signatures') |->
                             NewCheckFuture(signatures'[j])]
               /\ pc' = "phase2"
               /\ mainResult' = mainResult
    /\ UNCHANGED <<configFile, wallets, snd, statuses, success_count,
                   fail_count>>

CollectResults ==
    /\ pc = "phase1"
    /\ AllSendsJoined(snd)
    /\ results' = JoinAll(snd)
    /\ signatures' = CollectSignatures(results')
    /\ output' = output \o CollectOutput(results')
                        \o <<Line("checking", 0, "none", 0)>>
    /\ chk' = [j \in 1..Len(signatures') |-> NewCheckFuture(signatures'[j])]
    /\ pc' = "phase2"
    /\ UNCHANGED <<configFile, mainResult, wallets, snd, statuses,
                   success_count, fail_count>>

\* ---- check_tx_status ----------------------------------------------------
StatusResponses == {"rpc_err", "none", "ok", "tx_err"}

\* for _ in 0..10: the call of get_signature_status_with_commitment
IssueQuery(c) ==
    [c EXCEPT !.pc = "querying", !.queries = @ + 1,
              !.lastGap = c.sinceQuery, !.sinceQuery = 0]

\* a failed query that `continue`s without sleeping
QueryReturnedNoSleepOnErr(c, resp) ==
    IF resp \in {"ok", "tx_err"}
       THEN [c EXCEPT !.pc = "done", !.result = (resp = "ok"),
                      !.firstPresent = IF @ = "none" THEN resp ELSE @,
                      !.lastResp = resp]
    ELSE IF resp = "rpc_err"
       THEN [c EXCEPT !.attempt = @ + 1,
                      !.pc = IF c.attempt + 1 < MaxAttempts THEN "loop" ELSE "done"]
    ELSE [c EXCEPT !.pc = "sleeping", !.lastResp = resp]

\* result.err.is_some() in place of is_none()
QueryReturnedIsSome(c, resp) ==
    IF resp \in {"ok", "tx_err"}
       THEN [c EXCEPT !.pc = "done", !.result = (resp = "tx_err"),
                      !.firstPresent = IF @ = "none" THEN resp ELSE @,
                      !.lastResp = resp]
       ELSE [c EXCEPT !.pc = "sleeping", !.lastResp = resp]

\* a failed query that returns false at once
QueryReturnedErrReturns(c, resp) ==
    IF resp \in {"ok", "tx_err"}
       THEN [c EXCEPT !.pc = "done", !.result = (resp = "ok"),
                      !.firstPresent = IF @ = "none" THEN resp ELSE @,
                      !.lastResp = resp]
    ELSE IF resp = "rpc_err"
       THEN [c EXCEPT !.pc = "done", !.result = FALSE, !.lastResp = resp]
    ELSE [c EXCEPT !.pc = "sleeping", !.lastResp = resp]

\* a status with a transaction error that is polled again
QueryReturnedRetryOnTxErr(c, resp) ==
    IF resp = "ok"
       THEN [c EXCEPT !.pc = "done", !.result = TRUE,
                      !.firstPresent = IF @ = "none" THEN resp ELSE @,
                      !.lastResp = resp]
    ELSE IF resp = "tx_err"
       THEN [c EXCEPT !.pc = "sleeping",
                      !.firstPresent = IF @ = "none" THEN resp ELSE @,
                      !.lastResp = resp]
    ELSE [c EXCEPT !.pc = "sleeping", !.lastResp = resp]

\* the query's await returned: Ok(Some(result)) returns
\* result.err.is_none(); Err(_) and Ok(None) fall through to the sleep
QueryReturned(c, resp) ==
    IF resp \in {"ok", "tx_err"}
       THEN [c EXCEPT !.pc = "done", !.result = (resp = "ok"),
                      !.firstPresent = IF @ = "none" THEN resp ELSE @,
                      !.lastResp = resp]
       ELSE [c EXCEPT !.pc = "sleeping", !.lastResp = resp]

\* a loop over 0..=10
SleepReturnedInclusive(c) ==
    [c EXCEPT !.attempt = @ + 1,
              !.waited = @ + Interval,
              !.sinceQuery = @ + Interval,
              !.pc = IF c.attempt + 1 <= MaxAttempts THEN "loop" ELSE "done",
              !.result = FALSE,
              !.lastResp = "cleared"]

\* sleep(Duration::from_secs(2)).await returned: next iteration, or the
\* loop is exhausted and the function returns false
SleepReturned(c) ==
    [c EXCEPT !.attempt = @ + 1,
              !.waited = @ + Interval,
              !.sinceQuery = @ + Interval,
              !.pc = IF c.attempt + 1 < MaxAttempts THEN "loop" ELSE "done",
              !.result = FALSE,
              !.lastResp = "cleared"]

CheckQuery(j) ==
    /\ pc = "phase2"
    /\ chk[j].pc = "loop"
    /\ chk' = [chk EXCEPT ![j] = IssueQuery(chk[j])]
    /\ UNCHANGED <<configFile, pc, mainResult, wallets, snd, results,
                   signatures, statuses, success_count, fail_count, output>>

CheckResponse(j) ==
    /\ pc = "phase2"
    /\ chk[j].pc = "querying"
    /\ \E resp \in StatusResponses :
          chk' = [chk EXCEPT ![j] = QueryReturned(chk[j], resp)]
    /\ UNCHANGED <<configFile, pc, mainResult, wallets, snd, results,
                   signatures, statuses, success_count, fail_count, output>>

CheckSleep(j) ==
    /\ pc = "phase2"
    /\ chk[j].pc = "sleeping"
    /\ chk' = [chk EXCEPT ![j] = SleepReturned(chk[j])]
    /\ UNCHANGED <<configFile, pc, mainResult, wallets, snd, results,
                   signatures, statuses, success_count, fail_count, output>>

\* ---- main: join of phase 2, summary -------------------------------------
\* join_all(check_futures).await is ready when every check future is
AllChecksJoined(cs) == \A j \in DOMAIN cs : cs[j].pc = "done"

\* statuses.iter().filter(|&&s| s).count()
SuccessCount(st) == Cardinality({j \in DOMAIN st : st[j]})

\* a failure count that forgets the subtraction
FailCountAll(st) == Len(st)

\* statuses.len() - success_count
FailCount(st) == Len(st) - SuccessCount(st)

\* start.elapsed(): the checks sleep concurrently, so the time slept by the
\* run is the longest time slept by one of them (time passes only in sleeps)
Elapsed(cs) ==
    IF Len(cs) = 0 THEN 0
    ELSE CHOOSE w \in {cs[j].waited : j \in DOMAIN cs} :
            \A j \in DOMAIN cs : cs[j].waited <= w

\* the four println! of the summary
SummaryLines(succ, fail, elapsed) ==
    <<Line("complete", 0, "none", 0),
      Line("successful", 0, "none", succ),
      Line("failed_count", 0, "none", fail),
      Line("duration", 0, "none", elapsed)>>

Summary ==
    /\ pc = "phase2"
    /\ AllChecksJoined(chk)
    /\ statuses' = [j \in DOMAIN chk |-> chk[j].result]
    /\ success_count' = SuccessCount(statuses')
    /\ fail_count' = FailCount(statuses')
    /\ output' = output \o SummaryLines(success_count', fail_count', Elapsed(chk))
    /\ pc' = "done"
    /\ mainResult' = "Ok"
    /\ UNCHANGED <<configFile, wallets, snd, results, signatures, chk>>

Next ==
    \/ ReadConfig
    \/ ParseConfig
    \/ \E i \in DOMAIN snd : SendPollFirst(i)
    \/ \E i \in DOMAIN snd : SendBlockhash(i)
    \/ \E i \in DOMAIN snd : SendConfirm(i)
    \/ CollectResults
    \/ \E j \in DOMAIN chk : CheckQuery(j)
    \/ \E j \in DOMAIN chk : CheckResponse(j)
    \/ \E j \in DOMAIN chk : CheckSleep(j)
    \/ Summary

Spec == Init /\ [][Next]_vars

AmountSpec == AmountInit /\ [][Next]_vars

\* every remote call returns and the executor keeps polling ready futures
FairSpec == Spec /\ WF_vars(Next)

\* ---- properties ---------------------------------------------------------
OkSends == {i \in DOMAIN snd : snd[i].result.tag = "Ok"}
ErrSends == {i \in DOMAIN snd : snd[i].result.tag = "Err"}
Invoked == {j \in DOMAIN chk : chk[j].queries >= 1}
SummaryPrinted == \E k \in DOMAIN output : output[k].kind = "complete"
Loadable == configFile.exists /\ configFile.wellFormed

\* C1: once phase 1 has been joined there is exactly one submission outcome
\* per wallet entry and one check_tx_status future per send_sol that
\* returned Ok; at the end of the run exactly that many were invoked.
C1_OneOutcomePerEntry ==
    /\ pc \in {"phase2", "done"} =>
          /\ Len(results) = Len(wallets)
          /\ Len(chk) = Cardinality(OkSends)
    /\ pc = "done" => Cardinality(Invoked) = Cardinality(OkSends)
    /\ pc \notin {"phase2", "done"} => Len(chk) = 0

C1_Witness ==
    /\ pc = "done"
    /\ Len(wallets) = 2
    /\ Cardinality(OkSends) = 1
    /\ Cardinality(Invoked) = 1

\* C2: a status query has been issued only when every send_sol of the batch
\* has completed, and the polled signature is that of a send_sol that
\* returned Ok.
C2_Barrier ==
    \A j \in DOMAIN chk :
        chk[j].queries >= 1 =>
            /\ \A i \in DOMAIN snd : snd[i].pc = "done"
            /\ \E i \in DOMAIN snd : /\ snd[i].result.tag = "Ok"
                                    /\ snd[i].result.sig = chk[j].sig

C2_Witness ==
    /\ Len(wallets) = 2
    /\ \E j \in DOMAIN chk : chk[j].pc = "querying"
    /\ \E i \in DOMAIN snd : snd[i].sendResp = "err"

\* C3: a check_tx_status issues at most MaxAttempts queries, and every
\* query after the first is issued after exactly one Interval of sleep
\* since the previous one.
C3_BoundedQueriesFixedGap ==
    \A j \in DOMAIN chk :
        /\ chk[j].queries <= MaxAttempts
        /\ chk[j].queries >= 2 => chk[j].lastGap = Interval

C3_Witness ==
    \E j \in DOMAIN chk :
        /\ chk[j].pc = "querying"
        /\ chk[j].queries = MaxAttempts
        /\ chk[j].lastGap = Interval

\* C4: a finished check_tx_status returned true exactly when its first
\* present status carried no error; it returned false when that status
\* carried an error or when none of the MaxAttempts queries was present.
C4_ConfirmedIffFirstPresentOk ==
    \A j \in DOMAIN chk :
        chk[j].pc = "done" =>
            /\ chk[j].result <=> (chk[j].firstPresent = "ok")
            /\ chk[j].firstPresent = "tx_err" => ~chk[j].result
            /\ chk[j].firstPresent = "none" =>
                  ~chk[j].result /\ chk[j].queries = MaxAttempts

C4_Witness ==
    /\ pc = "done"
    /\ \E j, k \in DOMAIN chk :
          /\ chk[j].result /\ chk[j].queries > 1
          /\ ~chk[k].result /\ chk[k].firstPresent = "tx_err"

\* C5: an entry whose to_address does not parse never has an Ok result,
\* ends with an Err result, its signature is never in signatures and no
\* check_tx_status exists for it.
C5_BadAddressNeverPolled ==
    \A i \in DOMAIN snd :
        ~ParsePubkeyOk(wallets[i].to_address) =>
            /\ snd[i].result.tag # "Ok"
            /\ snd[i].pc = "done" => snd[i].result.tag = "Err"
            /\ pc \in {"phase2", "done"} => results[i].tag = "Err"
            /\ \A j \in DOMAIN signatures : signatures[j] # SignatureOf(i)
            /\ \A j \in DOMAIN chk : chk[j].sig # SignatureOf(i)

C5_Witness ==
    /\ pc = "done"
    /\ \E i, k \in DOMAIN snd :
          /\ ReadKeypairOk(wallets[i].from_keypair)
          /\ ~ParsePubkeyOk(wallets[i].to_address)
          /\ results[i].err = "address"
          /\ results[k].tag = "Ok"
          /\ \E j \in DOMAIN chk : chk[j].sig = SignatureOf(k) /\ chk[j].queries >= 1

\* the outcome of entry i as a function of that entry and of the
\* responses to its own remote calls only
IsolatedOutcome(i) ==
    IF ~ReadKeypairOk(wallets[i].from_keypair) THEN ErrR("keypair")
    ELSE IF ~ParsePubkeyOk(wallets[i].to_address) THEN ErrR("address")
    ELSE IF snd[i].bhResp = "err" THEN ErrR("blockhash")
    ELSE IF snd[i].sendResp = "err" THEN ErrR("rejected")
    ELSE OkR(SignatureOf(i))

\* C6: whatever the other entries did, once phase 1 is joined every entry
\* has been submitted to completion with the outcome its own inputs and
\* responses determine, every Ok entry has exactly one check_tx_status, and
\* at the end each status is the one its own responses determine.
C6_Isolation ==
    /\ pc \in {"phase2", "done"} =>
          \A i \in DOMAIN wallets :
              /\ snd[i].pc = "done"
              /\ results[i] = IsolatedOutcome(i)
              /\ results[i].tag = "Ok" =>
                    Cardinality({j \in DOMAIN chk : chk[j].sig = SignatureOf(i)}) = 1
              /\ results[i].tag = "Err" =>
                    \A j \in DOMAIN chk : chk[j].sig # SignatureOf(i)
    /\ pc = "done" =>
          \A j \in DOMAIN chk :
              /\ chk[j].pc = "done"
              /\ statuses[j] = (chk[j].firstPresent = "ok")

C6_Witness ==
    /\ pc = "done"
    /\ \E k, m \in DOMAIN wallets :
          /\ k < m
          /\ results[k].tag = "Err"
          /\ results[m].tag = "Ok"
          /\ \E j \in DOMAIN chk : chk[j].sig = SignatureOf(m) /\ statuses[j]

\* C7: the failure count of the summary accounts for every request whose
\* send_sol returned an error.
C7_SummaryCountsFailedSubmissions ==
    pc = "done" => fail_count >= Cardinality(ErrSends)

\* C8: a check_tx_status that finished without any present status issued
\* exactly MaxAttempts queries one Interval apart, slept Interval after
\* each of them, the last included, and returned false.
C8_TimeoutPath ==
    \A j \in DOMAIN chk :
        (chk[j].pc = "done" /\ chk[j].firstPresent = "none") =>
            /\ chk[j].queries = MaxAttempts
            /\ chk[j].lastGap = Interval
            /\ chk[j].waited = Interval * MaxAttempts
            /\ chk[j].sinceQuery = Interval
            /\ ~chk[j].result

C8_Witness ==
    /\ pc = "done"
    /\ \E j \in DOMAIN chk :
          /\ chk[j].firstPresent = "none"
          /\ chk[j].waited = Interval * MaxAttempts
          /\ ~statuses[j]

\* C9: once the config is loaded, the run eventually prints the summary and
\* main returns Ok, and main never returns Err after loading.
C9_Termination ==
    /\ (pc = "phase1") ~> (pc = "done" /\ mainResult = "Ok" /\ SummaryPrinted)
    /\ [](pc \in {"phase1", "phase2", "done"} => mainResult # "Err")

C9_Witness ==
    /\ pc = "done"
    /\ mainResult = "Ok"
    /\ SummaryPrinted
    /\ \E i \in DOMAIN results : results[i].tag = "Err"
    /\ \E j \in DOMAIN chk : chk[j].firstPresent = "none" /\ chk[j].queries = MaxAttempts

\* C10: when config.yaml cannot be read or parsed, main never gets past the
\* load, ends with Err, and no send_sol, no check_tx_status, no RPC call and
\* no output exists.
C10_LoadFailureIsFatal ==
    (~Loadable \/ mainResult = "Err") =>
        /\ pc \in {"read", "parse", "failed"}
        /\ pc = "failed" => mainResult = "Err"
        /\ snd = <<>>
        /\ chk = <<>>
        /\ results = <<>>
        /\ output = <<>>
        /\ ~SummaryPrinted

C10_Witness ==
    /\ pc = "failed"
    /\ mainResult = "Err"
    /\ configFile.exists
    /\ ~configFile.wellFormed

\* the state of request i in the per-request state machine, read off the
\* send_sol future s[i] and the check_tx_status future for its signature
ItemStateOf(s, c, i) ==
    IF i \notin DOMAIN s THEN "Pending"
    ELSE IF s[i].result.tag = "Pending" THEN "Pending"
    ELSE IF s[i].result.tag = "Err" THEN "SubmissionFailed"
    ELSE IF \A j \in DOMAIN c : c[j].sig # SignatureOf(i) THEN "Submitted"
    ELSE LET j == CHOOSE j \in DOMAIN c : c[j].sig = SignatureOf(i)
         IN IF c[j].pc # "done" THEN "ConfirmationPending"
            ELSE IF c[j].result THEN "Confirmed" ELSE "Unconfirmed"

ItemTransitions ==
    {<<"Pending", "Submitted">>, <<"Pending", "SubmissionFailed">>,
     <<"Submitted", "ConfirmationPending">>,
     <<"ConfirmationPending", "Confirmed">>,
     <<"ConfirmationPending", "Unconfirmed">>}

\* C11: every step leaves each request in its state or moves it along
\* Pending -> Submitted -> ConfirmationPending -> Confirmed | Unconfirmed or
\* Pending -> SubmissionFailed (so the three terminal states are
\* absorbing), and send_and_confirm_transaction is called at most once per
\* request.
C11_ItemStateMachine ==
    /\ [][\A i \in DOMAIN snd' :
             \/ ItemStateOf(snd', chk', i) = ItemStateOf(snd, chk, i)
             \/ <<ItemStateOf(snd, chk, i), ItemStateOf(snd', chk', i)>>
                   \in ItemTransitions]_vars
    /\ [](\A i \in DOMAIN snd : snd[i].sendCalls <= 1)

C11_Witness ==
    /\ pc = "done"
    /\ \E i, k \in DOMAIN snd :
          /\ ItemStateOf(snd, chk, i) = "SubmissionFailed"
          /\ snd[i].sendResp = "err"
          /\ snd[i].sendCalls = 1
          /\ ItemStateOf(snd, chk, k) = "Confirmed"

OutcomeLines == SelectSeq(output, LAMBDA l : l.kind \in {"sent", "failed"})

\* C12: from the end of the collect loop on, the output holds exactly one
\* outcome line per wallet entry: one sent line with its signature for each
\* Ok entry and one failed line for each Err entry; before that it holds
\* none.
C12_OneLinePerEntry ==
    /\ pc \in {"phase2", "done"} =>
          /\ Len(OutcomeLines) = Len(wallets)
          /\ \A i \in OkSends :
                Cardinality({k \in DOMAIN output :
                                /\ output[k].kind = "sent"
                                /\ output[k].sig = SignatureOf(i)}) = 1
          /\ Cardinality({k \in DOMAIN output : output[k].kind = "failed"})
                = Cardinality(ErrSends)
    /\ pc \notin {"phase2", "done"} => Len(OutcomeLines) = 0

C12_Witness ==
    /\ pc = "done"
    /\ Len(wallets) = 2
    /\ \E k, l \in DOMAIN output :
          output[k].kind = "sent" /\ output[l].kind = "failed"

\* the whole output of a run whose submissions ended as rs and whose checks
\* ended as cs
RunOutput(rs, cs) ==
    <<Line("sending", 0, "none", 0)>>
    \o CollectOutput(rs)
    \o <<Line("checking", 0, "none", 0)>>
    \o SummaryLines(SuccessCount([j \in DOMAIN cs |-> cs[j].result]),
                    FailCount([j \in DOMAIN cs |-> cs[j].result]),
                    Elapsed(cs))

\* how a check that ran out of attempts would have ended had its last query
\* reported a transaction error instead of no status
ErrorTwin(c) ==
    QueryReturned([c EXCEPT !.pc = "querying", !.attempt = @ - 1,
                            !.waited = @ - Interval, !.sinceQuery = 0],
                  "tx_err")

\* C13: the output of a run in which a check ran out of attempts differs
\* from the output of the run that is the same except that this check ended
\* on a transaction error reported by the remote.
C13_TimeoutDistinguishable ==
    pc = "done" =>
        \A j \in DOMAIN chk :
            chk[j].firstPresent = "none" =>
                output # RunOutput(results, [chk EXCEPT ![j] = ErrorTwin(chk[j])])

\* C14: in phase 1 every unfinished send_sol can take its next step whatever
\* the state of the others, likewise every unfinished check_tx_status in
\* phase 2, and a finished future's outcome is the one its own entry and its
\* own responses determine, in every interleaving.
C14_NoOrderingDependency ==
    /\ pc = "phase1" =>
          \A i \in DOMAIN snd :
              snd[i].pc # "done" =>
                  ENABLED (SendPollFirst(i) \/ SendBlockhash(i) \/ SendConfirm(i))
    /\ pc = "phase2" =>
          \A j \in DOMAIN chk :
              chk[j].pc # "done" =>
                  ENABLED (CheckQuery(j) \/ CheckResponse(j) \/ CheckSleep(j))
    /\ \A i \in DOMAIN snd :
          snd[i].pc = "done" => snd[i].result = IsolatedOutcome(i)
    /\ \A j \in DOMAIN chk :
          chk[j].pc = "done" => chk[j].result = (chk[j].firstPresent = "ok")

C14_Witness ==
    /\ pc = "phase1"
    /\ Len(snd) >= 2
    /\ snd[1].pc = "sending"
    /\ snd[2].pc = "done"
    /\ snd[2].result.tag = "Ok"

\* C15: after a status query that failed, exactly as after one that found no
\* status yet, the check is asleep with no result; its next step is the end
\* of one Interval of sleep, which counts the attempt and goes back to
\* query unless the attempts are used up; nothing is printed while polling.
C15_QueryErrorRetried ==
    /\ [](\A j \in DOMAIN chk :
             chk[j].lastResp \in {"rpc_err", "none"} =>
                 /\ chk[j].pc = "sleeping"
                 /\ chk[j].firstPresent = "none"
                 /\ ~chk[j].result
                 /\ chk[j].queries = chk[j].attempt + 1)
    /\ [](pc = "phase2" => output[Len(output)].kind = "checking")
    /\ [][\A j \in DOMAIN chk :
             (chk[j].lastResp \in {"rpc_err", "none"} /\ chk'[j] # chk[j]) =>
                 /\ chk'[j].attempt = chk[j].attempt + 1
                 /\ chk'[j].waited = chk[j].waited + Interval
                 /\ chk'[j].queries = chk[j].queries
                 /\ chk'[j].firstPresent = "none"
                 /\ chk'[j].pc = IF chk[j].attempt + 1 < MaxAttempts
                                    THEN "loop" ELSE "done"]_vars

C15_Witness ==
    \E j \in DOMAIN chk :
        /\ chk[j].pc = "loop"
        /\ chk[j].attempt >= 2
        /\ chk[j].queries = chk[j].attempt
        /\ \E k \in DOMAIN chk : chk[k].lastResp = "rpc_err"

PrintedCount(kind) ==
    LET k == CHOOSE k \in DOMAIN output : output[k].kind = kind
    IN output[k].n

\* C17: at the end of the run the output is the lines of the run's results
\* and checks; the printed Successful count is the number of checks that
\* returned true, Successful + Failed is the number of polled signatures,
\* which is the number of Ok submissions, and both counts are natural
\* numbers with a sum of at most the batch size.
C17_SummaryCounts ==
    pc = "done" =>
        /\ output = RunOutput(results, chk)
        /\ PrintedCount("successful")
              = Cardinality({j \in DOMAIN chk : chk[j].pc = "done" /\ chk[j].result})
        /\ PrintedCount("successful") + PrintedCount("failed_count")
              = Len(signatures)
        /\ Len(signatures) = Cardinality(OkSends)
        /\ PrintedCount("successful") >= 0
        /\ PrintedCount("failed_count") >= 0
        /\ PrintedCount("successful") + PrintedCount("failed_count")
              <= Len(wallets)

C17_Witness ==
    /\ pc = "done"
    /\ PrintedCount("successful") = 1
    /\ PrintedCount("failed_count") = 1

\* C18: an entry whose keypair cannot be read or whose address cannot be
\* parsed makes no RPC call; after a failed get_latest_blockhash no
\* send_and_confirm_transaction is made; a send_and_confirm_transaction has
\* been made only after the entry's own get_latest_blockhash succeeded.
C18_SendSolStepOrder ==
    \A i \in DOMAIN snd :
        /\ (~ReadKeypairOk(wallets[i].from_keypair)
              \/ ~ParsePubkeyOk(wallets[i].to_address)) =>
                 snd[i].bhCalls = 0 /\ snd[i].sendCalls = 0
        /\ snd[i].bhResp = "err" => snd[i].sendCalls = 0
        /\ snd[i].sendCalls >= 1 => snd[i].bhCalls = 1 /\ snd[i].bhResp = "ok"
        /\ snd[i].sendResp # "none" => snd[i].sendCalls >= 1
        /\ snd[i].bhCalls <= 1

C18_Witness ==
    \E i, k \in DOMAIN snd :
        /\ snd[i].pc = "done"
        /\ snd[i].bhResp = "err"
        /\ snd[i].sendCalls = 0
        /\ snd[k].sendCalls = 1
        /\ snd[k].bhResp = "ok"

\* C19: a check that has seen a present status is done, that status was
\* its last response and no sleep followed it; from then on no step changes
\* anything of that check, so its outcome is fixed.
C19_StopsAtFirstPresent ==
    /\ [](\A j \in DOMAIN chk :
             chk[j].firstPresent # "none" =>
                 /\ chk[j].pc = "done"
                 /\ chk[j].lastResp = chk[j].firstPresent
                 /\ chk[j].sinceQuery = 0)
    /\ [][\A j \in DOMAIN chk :
             chk[j].firstPresent # "none" => chk'[j] = chk[j]]_vars

C19_Witness ==
    \E j, k \in DOMAIN chk :
        /\ chk[j].firstPresent = "tx_err"
        /\ chk[j].queries = 1
        /\ chk[k].pc = "querying"
        /\ chk[k].queries >= 3

ItemOf(sig) == CHOOSE i \in DOMAIN snd : SignatureOf(i) = sig

\* C20: an outcome line is in the output only when every send_sol of the
\* batch is done; the k-th outcome line is the line of the k-th wallet
\* entry; the signatures, and the checks made from them, are in the order
\* of their entries.
C20_OutputInInputOrder ==
    /\ Len(OutcomeLines) > 0 => \A i \in DOMAIN snd : snd[i].pc = "done"
    /\ pc \in {"phase2", "done"} =>
          /\ Len(OutcomeLines) = Len(wallets)
          /\ \A i \in DOMAIN wallets :
                OutcomeLines[i] =
                    IF snd[i].result.tag = "Ok"
                       THEN Line("sent", SignatureOf(i), "none", 0)
                       ELSE Line("failed", 0, snd[i].result.err, 0)
          /\ \A a, b \in DOMAIN signatures :
                a < b => ItemOf(signatures[a]) < ItemOf(signatures[b])
          /\ \A j \in DOMAIN chk : chk[j].sig = signatures[j]

C20_Witness ==
    /\ pc = "phase2"
    /\ Len(wallets) = 2
    /\ OutcomeLines[1].kind = "failed"
    /\ OutcomeLines[1].err = "rejected"
    /\ OutcomeLines[2].kind = "sent"
    /\ signatures = <<SignatureOf(2)>>

\* C16: the lamports of every transfer that got as far as the conversion
\* are the amount times 10^9, that is the amount's count of nano-SOL.
C16_ExactConversion ==
    \A i \in DOMAIN snd :
        snd[i].bhCalls >= 1 => snd[i].lamports = wallets[i].amount_sol

====
